---- MODULE Spec2Model ----
(***************************************************************************)
(* TransactionsSummaryChart (src/src/components/TransactionSummaryChart.tsx) *)
(* A React function component: a load effect fetches the samples of         *)
(* dataUrl, a render effect aggregates them and owns one Chart instance.    *)
(*                                                                         *)
(* A nullable number (number | null) is a set: {} is null, {v} is v.        *)
(* An array is a sequence.  The identity of the chartData array, which the  *)
(* dependency list of the render effect compares, is the number of the      *)
(* fetch that produced it (0: the initial []).                              *)
(*                                                                         *)
(* React runs the effects of a commit in declaration order, each with the   *)
(* state of the render that scheduled it; an effect whose dependencies      *)
(* changed runs the cleanup its previous run returned first; state updates  *)
(* made inside an effect, or by the callbacks of one settled promise, are   *)
(* rendered together.  Every action is one such event with all the renders  *)
(* and effect runs it causes.                                               *)
(***************************************************************************)
EXTENDS Integers, Sequences, FiniteSets, TLC

\* ---------------------------------------------------------------- bounds
MaxLen == 2          \* longest sample sequence a fetch returns
MaxFetches == 3      \* fetches started over the life of one component

\* ------------------------------------------------------ program constants
BLOCKS_PERIOD == 8064
ORCHARD_ACTIVATION == 1687104
MONTH_PERIOD == 32256

\* ------------------------------------------------------------ input sets
\* Heights: off every boundary, weekly only, weekly and monthly below the
\* activation height, weekly and monthly above it.
Heights == {100, 8064, 32256, 1709568}
\* A filtered amount is a sub-count of its pool's amount.
Amounts == {<<0, 0>>, <<1, 0>>, <<1, 1>>}
Urls == {"u1", "u2"}
Pools == {"default", "orchard", "sapling", "other"}

Datum(h, s, o) ==
    [height |-> h, sapling |-> s[1], sapling_filter |-> s[2],
     orchard |-> o[1], orchard_filter |-> o[2]]

ShieldedTransactionDatum ==
    {Datum(h, s, o) : h \in Heights, s \in Amounts, o \in Amounts}

Ascending(data) ==
    \A i \in 1..(Len(data) - 1) : data[i].height < data[i + 1].height

\* Every response body of the contract: heights strictly increasing.
SampleSeqs ==
    {data \in UNION {[1..n -> ShieldedTransactionDatum] : n \in 0..MaxLen} :
        Ascending(data)}

\* The two response bodies the life-cycle specification draws from.
LifecyclePayloads ==
    {<<>>, <<Datum(32256, <<1, 0>>, <<1, 1>>)>>}

\* ---------------------------------------------------------- aggregation
Null == {}

\* x > 0 ? x : null
PositiveOrNull(x) == IF x > 0 THEN {x} ELSE Null

ZeroSums ==
    [sapling |-> 0, sapling_filter |-> 0, orchard |-> 0, orchard_filter |-> 0]

\* saplingSum += d.sapling; ... (the four accumulators)
Accumulate(sums, d) ==
    [sapling |-> sums.sapling + d.sapling,
     sapling_filter |-> sums.sapling_filter + d.sapling_filter,
     orchard |-> sums.orchard + d.orchard,
     orchard_filter |-> sums.orchard_filter + d.orchard_filter]

\* SumPoint with the sample's own amounts in place of the running totals.
SumPointOfSample(d, sums) ==
    [height |-> d.height,
     sapling |-> d.sapling,
     sapling_filter |-> d.sapling_filter,
     orchard |-> PositiveOrNull(d.orchard),
     orchard_filter |-> PositiveOrNull(d.orchard_filter)]

\* The object chartData.map returns for one sample.
SumPoint(d, sums) ==
    [height |-> d.height,
     sapling |-> sums.sapling,
     sapling_filter |-> sums.sapling_filter,
     orchard |-> PositiveOrNull(sums.orchard),
     orchard_filter |-> PositiveOrNull(sums.orchard_filter)]

RECURSIVE MapSum(_, _, _)
MapSum(data, i, sums) ==
    IF i > Len(data) THEN <<>>
    ELSE LET s == Accumulate(sums, data[i])
         IN  <<SumPoint(data[i], s)>> \o MapSum(data, i + 1, s)

chartDataSum(data) == MapSum(data, 1, ZeroSums)

IsWeekly(d) == d.height % BLOCKS_PERIOD = 0

\* orchard_filter of a pushed bucket
BucketOrchardFilter(sums) ==
    IF sums.orchard_filter > 0 THEN {sums.orchard - sums.orchard_filter} ELSE Null

\* The object pushed at a monthly boundary.
PeriodPoint(d, sums) ==
    [height |-> d.height,
     sapling |-> sums.sapling,
     sapling_filter |-> sums.sapling - sums.sapling_filter,
     orchard |-> PositiveOrNull(sums.orchard),
     orchard_filter |-> BucketOrchardFilter(sums)]

IsMonthly(d) == d.height % MONTH_PERIOD = 0

\* ForEachPeriod without the reset of the four totals after a bucket.
RECURSIVE ForEachPeriodNoReset(_, _, _)
ForEachPeriodNoReset(data, i, sums) ==
    IF i > Len(data) THEN <<>>
    ELSE LET s == Accumulate(sums, data[i])
         IN  IF IsMonthly(data[i])
             THEN <<PeriodPoint(data[i], s)>> \o ForEachPeriodNoReset(data, i + 1, s)
             ELSE ForEachPeriodNoReset(data, i + 1, s)

RECURSIVE ForEachPeriod(_, _, _)
ForEachPeriod(data, i, sums) ==
    IF i > Len(data) THEN <<>>
    ELSE LET s == Accumulate(sums, data[i])
         IN  IF IsMonthly(data[i])
             THEN <<PeriodPoint(data[i], s)>> \o ForEachPeriod(data, i + 1, ZeroSums)
             ELSE ForEachPeriod(data, i + 1, s)

\* chartDataPeriod before the pool filter
Aggregate(data, cum) ==
    IF cum THEN SelectSeq(chartDataSum(data), IsWeekly)
    ELSE ForEachPeriod(data, 1, ZeroSums)

AfterActivation(d) == d.height >= ORCHARD_ACTIVATION

\* orchardOnly without the test of pool.
orchardOnlyAnyPool(points, p) == SelectSeq(points, AfterActivation)

orchardOnly(points, p) ==
    IF p = "orchard" THEN SelectSeq(points, AfterActivation) ELSE points

chartDataPeriod(data, p, cum) == orchardOnly(Aggregate(data, cum), p)

Series(label, points, field) ==
    [label |-> label, data |-> [i \in 1..Len(points) |-> points[i][field]]]

\* chartSets with each filtered series pushed after its raw series.
chartSetsRawFirst(points, p, f) ==
    (IF p = "default" \/ p = "orchard"
     THEN <<Series("Orchard", points, "orchard")>>
          \o (IF f THEN <<Series("Orchard Filter", points, "orchard_filter")>> ELSE <<>>)
     ELSE <<>>)
    \o
    (IF p = "default" \/ p = "sapling"
     THEN <<Series("Sapling", points, "sapling")>>
          \o (IF f THEN <<Series("Sapling Filter", points, "sapling_filter")>> ELSE <<>>)
     ELSE <<>>)

chartSets(points, p, f) ==
    (IF p = "default" \/ p = "orchard"
     THEN (IF f THEN <<Series("Orchard Filter", points, "orchard_filter")>> ELSE <<>>)
          \o <<Series("Orchard", points, "orchard")>>
     ELSE <<>>)
    \o
    (IF p = "default" \/ p = "sapling"
     THEN (IF f THEN <<Series("Sapling Filter", points, "sapling_filter")>> ELSE <<>>)
          \o <<Series("Sapling", points, "sapling")>>
     ELSE <<>>)

\* new Chart(chartRef.current, {...})
NewChart(canvas, data, p, cum, f) ==
    LET points == chartDataPeriod(data, p, cum)
    IN  [canvas |-> canvas,
         type |-> IF cum THEN "line" ELSE "bar",
         labels |-> [i \in 1..Len(points) |-> ToString(points[i].height)],
         datasets |-> chartSets(points, p, f),
         stacked |-> ~cum]

\* -------------------------------------------------------- component state
VARIABLES
    phase,        \* "init" (constructed), "mounted", "unmounted"
    dataUrl, pool, cumulative, filter,      \* props
    chartData, isLoading, error,            \* useState cells
    chartRef,     \* chartRef.current: Null or {canvas element}
    canvases,     \* canvas elements created so far
    fetches,      \* the promises of fetchTransactionData, in start order
    charts,       \* the Chart instances not yet destroyed, in creation order
    cleanup       \* whether the last run of the render effect returned its cleanup

vars == <<phase, dataUrl, pool, cumulative, filter, chartData,
          isLoading, error, chartRef, canvases, fetches, charts, cleanup>>

props == <<dataUrl, pool, cumulative, filter>>

\* The component returns the canvas only when neither branch above it returns.
RendersCanvas(loading, err) == ~loading /\ err = Null

\* chartRef.current after a commit: the mounted canvas stays, a canvas that
\* appears is a new element, a canvas that disappears leaves null.
RefAfter(ref, loading, err) ==
    IF RendersCanvas(loading, err)
    THEN (IF ref # Null THEN ref ELSE {canvases + 1})
    ELSE Null

CanvasesAfter(ref, loading, err) ==
    IF RendersCanvas(loading, err) /\ ref = Null THEN canvases + 1 ELSE canvases

\* chartInstance.destroy() of the instance the last run created
Destroy(chs) == SubSeq(chs, 1, Len(chs) - 1)

\* RunCleanup of a render effect that returns no cleanup.
RunCleanupNothing(chs, cl) == chs

\* The cleanup the previous run of the render effect returned, if any.
RunCleanup(chs, cl) == IF cl THEN Destroy(chs) ELSE chs

\* One run of the render effect after its dependencies changed: the previous
\* cleanup, then the body with the isLoading of the render that scheduled it.
RenderEffect(chs, cl, loading, ref, data, p, cum, f) ==
    LET kept == RunCleanup(chs, cl)
    IN  IF loading \/ ref = Null
        THEN [charts |-> kept, cleanup |-> FALSE]
        ELSE [charts |-> Append(kept, NewChart(CHOOSE c \in ref : TRUE, data, p, cum, f)),
              cleanup |-> TRUE]

\* fetchTransactionData(url): a pending promise
StartFetch(url) == Append(fetches, [url |-> url, state |-> "pending"])

SettleFetch(i, st) == [fetches EXCEPT ![i].state = st]

Pending == {i \in 1..Len(fetches) : fetches[i].state = "pending"}

Init ==
    /\ phase = "init"
    /\ dataUrl \in Urls
    /\ pool \in Pools
    /\ cumulative \in BOOLEAN
    /\ filter \in BOOLEAN
    /\ chartData = [src |-> 0, samples |-> <<>>]
    /\ isLoading = FALSE
    /\ error = Null
    /\ chartRef = Null
    /\ canvases = 0
    /\ fetches = <<>>
    /\ charts = <<>>
    /\ cleanup = FALSE

\* First render (isLoading false: the canvas is mounted), then both effects in
\* order: the load effect starts the fetch and sets isLoading, the render
\* effect still sees isLoading false and the canvas; then the re-render that
\* setIsLoading(true) causes replaces the canvas by "Loading ...".
Mount ==
    /\ phase = "init"
    /\ phase' = "mounted"
    /\ fetches' = StartFetch(dataUrl)
    /\ LET ref == RefAfter(chartRef, isLoading, error)
           run == RenderEffect(charts, cleanup, isLoading, ref,
                               chartData.samples, pool, cumulative, filter)
       IN  /\ charts' = run.charts
           /\ cleanup' = run.cleanup
           /\ canvases' = CanvasesAfter(chartRef, isLoading, error)
    /\ isLoading' = TRUE
    /\ chartRef' = Null
    /\ UNCHANGED <<props, chartData, error>>

\* The parent passes another dataUrl: only the load effect runs again.
SetDataUrl(u) ==
    /\ phase = "mounted"
    /\ u # dataUrl
    /\ Len(fetches) < MaxFetches
    /\ dataUrl' = u
    /\ fetches' = StartFetch(u)
    /\ isLoading' = TRUE
    /\ chartRef' = Null
    /\ UNCHANGED <<phase, pool, cumulative, filter, chartData,
                   error, canvases, charts, cleanup>>

\* A re-render in which a dependency of the render effect changed.
Rerender(p, cum, f) ==
    LET run == RenderEffect(charts, cleanup, isLoading, chartRef,
                            chartData.samples, p, cum, f)
    IN  /\ charts' = run.charts
        /\ cleanup' = run.cleanup
        /\ UNCHANGED <<phase, dataUrl, chartData, isLoading, error,
                       chartRef, canvases, fetches>>

SetPool(p) ==
    /\ phase = "mounted"
    /\ p # pool
    /\ pool' = p
    /\ Rerender(p, cumulative, filter)
    /\ UNCHANGED <<cumulative, filter>>

SetCumulative ==
    /\ phase = "mounted"
    /\ cumulative' = ~cumulative
    /\ Rerender(pool, ~cumulative, filter)
    /\ UNCHANGED <<pool, filter>>

SetFilter ==
    /\ phase = "mounted"
    /\ filter' = ~filter
    /\ Rerender(pool, cumulative, ~filter)
    /\ UNCHANGED <<pool, cumulative>>

\* Fetch i resolves with the array `data`: .then sets chartData, .finally
\* clears isLoading; error is left as it is.  Both updates are made from
\* promise callbacks in the same task, which React 18 renders together: one
\* render follows, then the render effect, whose dependency chartData changed.
\* After an unmount React drops the updates.
Resolve(i, data) ==
    /\ i \in Pending
    /\ fetches' = SettleFetch(i, "fulfilled")
    /\ IF phase = "mounted"
       THEN /\ chartData' = [src |-> i, samples |-> data]
            /\ isLoading' = FALSE
            /\ chartRef' = RefAfter(chartRef, FALSE, error)
            /\ canvases' = CanvasesAfter(chartRef, FALSE, error)
            /\ LET run == RenderEffect(charts, cleanup, FALSE, chartRef',
                                       data, pool, cumulative, filter)
               IN  /\ charts' = run.charts
                   /\ cleanup' = run.cleanup
       ELSE UNCHANGED <<chartData, isLoading, chartRef, canvases, charts, cleanup>>
    /\ UNCHANGED <<phase, props, error>>

\* Fetch i rejects (transport error, HTTP status, malformed body): .catch
\* sets error, .finally clears isLoading.
Reject(i) ==
    /\ i \in Pending
    /\ fetches' = SettleFetch(i, "rejected")
    /\ IF phase = "mounted"
       THEN /\ error' = {i}
            /\ isLoading' = FALSE
            /\ chartRef' = RefAfter(chartRef, FALSE, {i})
       ELSE UNCHANGED <<error, isLoading, chartRef>>
    /\ UNCHANGED <<phase, props, chartData, canvases, charts, cleanup>>

\* React unmounts the component: the cleanup of the render effect runs.
Unmount ==
    /\ phase = "mounted"
    /\ phase' = "unmounted"
    /\ charts' = RunCleanup(charts, cleanup)
    /\ cleanup' = FALSE
    /\ chartRef' = Null
    /\ UNCHANGED <<props, chartData, isLoading, error, canvases, fetches>>

Next ==
    \/ Mount
    \/ \E u \in Urls : SetDataUrl(u)
    \/ \E p \in Pools : SetPool(p)
    \/ SetCumulative
    \/ SetFilter
    \/ \E i \in Pending, data \in LifecyclePayloads : Resolve(i, data)
    \/ \E i \in Pending : Reject(i)
    \/ Unmount

Spec == Init /\ [][Next]_vars

\* One load of any response body of the contract, then any changes of pool,
\* cumulative and filter.
NextAgg ==
    \/ Mount
    \/ \E p \in Pools : SetPool(p)
    \/ SetCumulative
    \/ SetFilter
    \/ \E i \in Pending, data \in SampleSeqs : Resolve(i, data)
    \/ \E i \in Pending : Reject(i)

SpecAgg == Init /\ [][NextAgg]_vars

\* ------------------------------------------------- vocabulary of the claims
\* The chart of the last run of the render effect is on the mounted canvas.
Displayed ==
    /\ charts # <<>>
    /\ chartRef # Null
    /\ charts[Len(charts)].canvas \in chartRef

\* The indices of the samples (or points) whose height satisfies Test.
Picked(s, Test(_)) == {i \in 1..Len(s) : Test(s[i])}

\* The k-th smallest element of a set of indices.
Nth(S, k) == CHOOSE i \in S : Cardinality({j \in S : j <= i}) = k

\* out holds exactly the elements of s at the indices S, in the order of s.
IsSelection(out, s, S) ==
    /\ Len(out) = Cardinality(S)
    /\ \A k \in 1..Len(out) : out[k] = s[Nth(S, k)]

\* The sum of a field over the samples lo..hi.
RECURSIVE SumOf(_, _, _, _)
SumOf(data, field, lo, hi) ==
    IF hi < lo THEN 0 ELSE data[hi][field] + SumOf(data, field, lo, hi - 1)

\* absent exactly when the total is zero
AbsentIffZero(total) == IF total = 0 THEN Null ELSE {total}

\* absent counted as zero
OrZero(v) == IF v = Null THEN 0 ELSE CHOOSE x \in v : TRUE

Samples == chartData.samples

WeeklyIdx == Picked(Samples, LAMBDA d : d.height % 8064 = 0)
MonthlyIdx == Picked(Samples, LAMBDA d : d.height % 32256 = 0)

\* The first sample of the bucket that ends at the k-th monthly boundary.
BucketStart(k) == IF k = 1 THEN 1 ELSE Nth(MonthlyIdx, k - 1) + 1

BucketSum(field, k) == SumOf(Samples, field, BucketStart(k), Nth(MonthlyIdx, k))

ExampleInput ==
    [i \in 1..3 |-> [height |-> (i - 1) * 8064, sapling |-> 10, sapling_filter |-> 2,
                     orchard |-> 0, orchard_filter |-> 0]]

ExampleOutput ==
    [i \in 1..3 |-> [height |-> (i - 1) * 8064, sapling |-> 10 * i,
                     sapling_filter |-> 2 * i, orchard |-> Null, orchard_filter |-> Null]]

\* ------------------------------------------------------------------ claims

\* C1: after a failed load, a new dataUrl restarts from Loading, and when the
\* new fetch succeeds the component is Ready: its result is held, the chart is
\* displayed and no error is shown.
C1_RecoversAfterFailure ==
    [][/\ (phase = "mounted" /\ error # Null /\ dataUrl' # dataUrl) => isLoading'
       /\ LET n == Len(fetches)
          IN  (/\ phase = "mounted"
               /\ error # Null
               /\ isLoading
               /\ Pending = {n}
               /\ fetches'[n].state = "fulfilled")
              => (/\ ~isLoading'
                  /\ error' = Null
                  /\ chartData'.src = n
                  /\ Displayed')]_vars

\* C2: while a fetch of the component is outstanding the component is Loading
\* and rendering is suppressed: no canvas is mounted, no chart is displayed.
C2_LoadingWhileInFlight ==
    (phase = "mounted" /\ Pending # {}) => (isLoading /\ chartRef = Null /\ ~Displayed)

\* C3: once every fetch has settled successfully, the sequence held is the
\* result of the fetch for the latest dataUrl, whatever the order of settling.
C3_LatestFetchWins ==
    (/\ phase = "mounted"
     /\ Len(fetches) >= 2
     /\ \A i \in 1..Len(fetches) : fetches[i].state = "fulfilled")
    => chartData.src = Len(fetches)

\* C4: at most one chart instance is live at any time, and none is live once
\* the component is torn down.
C4_OneLiveChart ==
    /\ Len(charts) <= 1
    /\ phase = "unmounted" => charts = <<>>

\* C4 witness: the chart of an earlier run was destroyed and a later run made
\* the one live chart, on a later canvas, after a change of pool.
C4_Witness ==
    /\ phase = "mounted"
    /\ Len(charts) = 1
    /\ charts[1].canvas > 1
    /\ chartData.src > 1
    /\ pool = "orchard"

\* C5: in Periodic mode orchard and orchardFiltered of a bucket are absent only
\* when the orchard accumulation of the bucket is zero.
C5_AbsentOnlyWhenOrchardZero ==
    ~cumulative =>
        LET out == Aggregate(Samples, FALSE)
        IN  \A k \in 1..Len(out) :
                /\ out[k].orchard = Null => BucketSum("orchard", k) = 0
                /\ out[k].orchard_filter = Null => BucketSum("orchard", k) = 0

\* C6: in Cumulative mode the output is one point per sample at a multiple of
\* 8064, in input order, each carrying the sums of all samples up to it, with
\* orchard and orchardFiltered absent exactly when their running total is zero.
C6_CumulativePoints ==
    /\ Aggregate(ExampleInput, TRUE) = ExampleOutput
    /\ cumulative =>
        LET out == Aggregate(Samples, TRUE)
        IN  /\ Len(out) = Cardinality(WeeklyIdx)
            /\ \A k \in 1..Len(out) :
                 LET i == Nth(WeeklyIdx, k)
                 IN  /\ out[k].height = Samples[i].height
                     /\ out[k].sapling = SumOf(Samples, "sapling", 1, i)
                     /\ out[k].sapling_filter = SumOf(Samples, "sapling_filter", 1, i)
                     /\ out[k].orchard = AbsentIffZero(SumOf(Samples, "orchard", 1, i))
                     /\ out[k].orchard_filter =
                            AbsentIffZero(SumOf(Samples, "orchard_filter", 1, i))
            /\ (Displayed /\ pool # "orchard") =>
                 charts[1].labels = [k \in 1..Len(out) |-> ToString(out[k].height)]

\* C6 witness: a cumulative chart is displayed of two samples, the first off
\* the weekly grid with a nonzero orchard amount, the second on it.
C6_Witness ==
    /\ cumulative
    /\ Displayed
    /\ pool = "default"
    /\ Len(Samples) = 2
    /\ Samples[1].height % 8064 # 0
    /\ Samples[1].orchard > 0
    /\ Samples[2].height % 8064 = 0
    /\ Len(charts[1].labels) = 1

\* C7: in Periodic mode there is one bucket per sample at a multiple of 32256
\* and none for the others; sapling and orchard are the sums since the
\* previous boundary, each filtered value is total minus filtered total.
C7_PeriodicBuckets ==
    ~cumulative =>
        LET out == Aggregate(Samples, FALSE)
        IN  /\ Len(out) = Cardinality(MonthlyIdx)
            /\ \A k \in 1..Len(out) :
                 /\ out[k].height = Samples[Nth(MonthlyIdx, k)].height
                 /\ out[k].sapling = BucketSum("sapling", k)
                 /\ out[k].sapling_filter =
                        BucketSum("sapling", k) - BucketSum("sapling_filter", k)
                 /\ out[k].orchard = AbsentIffZero(BucketSum("orchard", k))
                 /\ out[k].orchard_filter =
                        IF BucketSum("orchard", k) = 0 THEN Null
                        ELSE {BucketSum("orchard", k) - BucketSum("orchard_filter", k)}

\* C8: when the last sample is at a multiple of 32256, the Periodic buckets'
\* sapling totals, and orchard totals with absent as zero, add up to the
\* totals of the last Cumulative point.
C8_Conservation ==
    (Samples # <<>> /\ Samples[Len(Samples)].height % 32256 = 0) =>
        LET buckets == Aggregate(Samples, FALSE)
            points == Aggregate(Samples, TRUE)
            saplings == [k \in 1..Len(buckets) |-> [v |-> buckets[k].sapling]]
            orchards == [k \in 1..Len(buckets) |-> [v |-> OrZero(buckets[k].orchard)]]
        IN  /\ points # <<>>
            /\ points[Len(points)].height = Samples[Len(Samples)].height
            /\ SumOf(saplings, "v", 1, Len(buckets)) = points[Len(points)].sapling
            /\ SumOf(orchards, "v", 1, Len(buckets)) = OrZero(points[Len(points)].orchard)

\* C8 witness: a sample off the monthly grid with nonzero amounts, then one on it.
C8_Witness ==
    /\ Displayed
    /\ Len(Samples) = 2
    /\ Samples[1].height % 32256 # 0
    /\ Samples[1].sapling > 0
    /\ Samples[1].orchard > 0
    /\ Samples[2].height % 32256 = 0

\* C9: pool orchard removes exactly the points below 1687104, keeping the
\* order of the others; pool default or sapling removes no point.
C9_OrchardOnlyFilter ==
    LET points == Aggregate(Samples, cumulative)
        out == orchardOnly(points, pool)
    IN  /\ pool = "orchard" =>
              IsSelection(out, points, Picked(points, LAMBDA d : ~(d.height < 1687104)))
        /\ pool \in {"default", "sapling"} => out = points
        /\ Displayed =>
              charts[1].labels = [k \in 1..Len(out) |-> ToString(out[k].height)]

\* C9 witness: an orchard chart is displayed whose data has a point below the
\* activation height, removed, and one above it, kept.
C9_Witness ==
    /\ Displayed
    /\ pool = "orchard"
    /\ Len(Aggregate(Samples, cumulative)) = 2
    /\ charts[1].labels = <<"1709568">>

\* C10: the series are determined by pool and filter: default gives orchard
\* then sapling, orchard or sapling the named pool, any other pool nothing;
\* filter puts each pool's filtered series right before its raw series.
C10_SeriesList ==
    charts # <<>> =>
        LET sets == charts[Len(charts)].datasets
            labels == [k \in 1..Len(sets) |-> sets[k].label]
            orchardPart == IF pool \in {"default", "orchard"}
                           THEN (IF filter THEN <<"Orchard Filter", "Orchard">>
                                 ELSE <<"Orchard">>)
                           ELSE <<>>
            saplingPart == IF pool \in {"default", "sapling"}
                           THEN (IF filter THEN <<"Sapling Filter", "Sapling">>
                                 ELSE <<"Sapling">>)
                           ELSE <<>>
        IN  /\ labels = orchardPart \o saplingPart
            /\ Len(sets) \in {0, 1, 2, 4}
            /\ \A k \in 1..Len(sets) :
                 sets[k].label \in {"Orchard Filter", "Sapling Filter"} =>
                    /\ filter
                    /\ k < Len(sets)
                    /\ sets[k + 1].label = (IF sets[k].label = "Orchard Filter"
                                            THEN "Orchard" ELSE "Sapling")

\* C10 witness: a displayed chart of both pools with their filtered series.
C10_Witness ==
    /\ Displayed
    /\ pool = "default"
    /\ filter
    /\ Len(charts[1].datasets) = 4
    /\ Samples # <<>>

====
